---- MODULE Spec2Model ----
(***************************************************************************)
(* LearnPlan: the deterministic plan generator (src/src/planner.ts) and    *)
(* the business-logic validator (schema.ts, src/unnamed/part_001).         *)
(*                                                                         *)
(* Numbers.  Every hour value is a decimal fixed-point number counted in   *)
(* thousandths of an hour (7.5 h is 7500).  The inputs range over even     *)
(* thousandths, so that no argument of the two-decimal roundings is an     *)
(* exact decimal half and the decimal result is the binary64 result.  The  *)
(* two places where the binary64 result differs from the decimal one on    *)
(* this grid are modelled as binary64 computes them: the one-decimal       *)
(* rounding of total/3 (FpUnitRoundsDown) and the comparison of a          *)
(* difference of exactly 0.01 with the literal 0.01 (FpHundredthApart).    *)
(***************************************************************************)
EXTENDS Integers, Sequences, FiniteSets, TLC

VARIABLES inputs, plan, errors, pc, raw, file, calls

vars == <<inputs, plan, errors, pc, raw, file, calls>>

\* ---------------------------------------------------------------- bounds
MaxWeeks == 12
MaxGrid == 7100
MaxCandWeeks == 2
MaxCandTasks == 2

\* ------------------------------------------------------------ arithmetic
\* Math.round(num / den) for den > 0: nearest integer, halves go up.
MathRound(num, den) == (2 * num + den) \div (2 * den)

\* Math.round(x * 100) / 100 of a value x given in thousandths.
Round2(x) == 10 * MathRound(x, 10)

RECURSIVE SumEffort(_)
\* tasks.reduce((s, t) => s + t.effort_hours, 0)
SumEffort(tasks) ==
  IF tasks = <<>> THEN 0
  ELSE Head(tasks).effort_hours + SumEffort(Tail(tasks))

\* ------------------------------------------------------------ phase logic
\* phaseOf without the branches for one-week and two-week plans
phaseOfRatioOnly(week, total) ==
  IF 3 * week <= total THEN "foundation"
  ELSE IF 3 * week <= 2 * total THEN "development"
  ELSE "application"

\* phaseOf with strict comparisons of the ratio
phaseOfStrict(week, total) ==
  IF total = 1 THEN "application"
  ELSE IF total = 2 THEN (IF week = 1 THEN "foundation" ELSE "application")
  ELSE IF 3 * week < total THEN "foundation"
  ELSE IF 3 * week < 2 * total THEN "development"
  ELSE "application"

\* ratio = week / total is compared with the doubles 1/3 and 2/3; for the
\* plan lengths of the model the result is that of the integer comparison.
phaseOf(week, total) ==
  IF total = 1 THEN "application"
  ELSE IF total = 2 THEN (IF week = 1 THEN "foundation" ELSE "application")
  ELSE IF 3 * week <= total THEN "foundation"
  ELSE IF 3 * week <= 2 * total THEN "development"
  ELSE "application"

\* ------------------------------------------------------ hour distribution
\* tasksPerWeek with strict comparisons
tasksPerWeekStrict(hoursPerWeek) ==
  IF hoursPerWeek < 4000 THEN 2
  ELSE IF hoursPerWeek < 14000 THEN 3
  ELSE 4

tasksPerWeek(hoursPerWeek) ==
  IF hoursPerWeek <= 4000 THEN 2
  ELSE IF hoursPerWeek <= 14000 THEN 3
  ELSE 4

\* The totals for which binary64 evaluates (total / 3) * 10 just below the
\* decimal half n + 0.5, so that Math.round returns n and not n + 1
\* (4.05 / 3 * 10 is 13.499999999999998).
FpUnitRoundsDown == {4050, 7350, 8850, 12450, 13950}

distributeHours(total, count) ==
  LET tenths == IF count = 3 /\ total \in FpUnitRoundsDown
                THEN MathRound(total, 100 * count) - 1
                ELSE MathRound(total, 100 * count)
      unit == 100 * tenths
      rest == Round2(total - unit * (count - 1))
  IN [i \in 1..count |-> IF i = count THEN rest ELSE unit]

\* ----------------------------------------------------- task-template banks
\* A template is identified by its bank and its position in the bank; the
\* interpolated topic and goal are the same for every week of a plan.
Bank(name) == [i \in 1..4 |-> <<name, i>>]

\* foundationBank without the rotation
foundationBankFirstOnly(idx) == Bank("foundation-0")

foundationBank(idx) ==
  LET banks == <<Bank("foundation-0"), Bank("foundation-1")>>
  IN banks[(idx % Len(banks)) + 1]

developmentBank(idx) ==
  LET banks == <<Bank("development-0"), Bank("development-1"),
                 Bank("development-2")>>
  IN banks[(idx % Len(banks)) + 1]

\* applicationBank taking totalAppWeeks for the index of the last week
applicationBankLastOffByOne(idx, totalAppWeeks) ==
  LET isFirst == idx = 0
      isLast == idx = totalAppWeeks
  IN IF isFirst THEN Bank("application-kickoff")
     ELSE IF isLast THEN Bank("application-wrapup")
     ELSE Bank("application-middle")

applicationBank(idx, totalAppWeeks) ==
  LET isFirst == idx = 0
      isLast == idx = totalAppWeeks - 1
  IN IF isFirst THEN Bank("application-kickoff")
     ELSE IF isLast THEN Bank("application-wrapup")
     ELSE Bank("application-middle")

\* ------------------------------------------------------------ focus line
focusLine(phase, idx) ==
  IF phase = "foundation"
  THEN (IF idx = 0 THEN <<"Introduction & Setup">>
        ELSE <<"Fundamentals - Part", idx + 1>>)
  ELSE IF phase = "development"
  THEN LET labels == <<"Core Patterns", "Error Handling & Testing",
                       "Ecosystem & Performance", "Advanced Techniques">>
       IN <<labels[(idx % Len(labels)) + 1]>>
  ELSE LET labels == <<"Project Design & Kickoff",
                       "Core Feature Implementation",
                       "Integration & Quality",
                       "Final Polish & Portfolio">>
           at == IF idx < Len(labels) - 1 THEN idx ELSE Len(labels) - 1
       IN <<labels[at + 1]>>


\* -------------------------------------------------------- main generator
RECURSIVE GenerateWeeks(_, _, _, _, _, _)
\* The loop  for (let w = 1; w <= weeks; w++)  of generatePlan: phaseIdx
\* is the per-phase occurrence counter, acc the weeks pushed so far.
GenerateWeeks(in, nTasks, appWeekCount, w, phaseIdx, acc) ==
  IF ~(w <= in.weeks) THEN acc
  ELSE
    LET phase == phaseOf(w, in.weeks)
        idx == phaseIdx[phase]
        templates == IF phase = "foundation" THEN foundationBank(idx)
                     ELSE IF phase = "development" THEN developmentBank(idx)
                     ELSE applicationBank(idx, appWeekCount)
        selected == SubSeq(templates, 1, nTasks)
        hrs == distributeHours(in.hours_per_week, Len(selected))
        tasks == [i \in 1..Len(selected) |->
                    [title |-> selected[i], effort_hours |-> hrs[i]]]
        weekHours == Round2(SumEffort(tasks))
        entry == [week |-> w, focus |-> focusLine(phase, idx),
                  hours |-> weekHours, tasks |-> tasks]
    IN GenerateWeeks(in, nTasks, appWeekCount, w + 1,
                     [phaseIdx EXCEPT ![phase] = idx + 1],
                     Append(acc, entry))

\* generatePlan with a loop counting from 0
generatePlanZeroBased(in) ==
  LET nTasks == tasksPerWeek(in.hours_per_week)
      appWeekCount ==
        Cardinality({w \in 1..in.weeks : phaseOf(w, in.weeks) = "application"})
      phaseIdx == [foundation |-> 0, development |-> 0, application |-> 0]
  IN [weeks |-> in.weeks, hours_per_week |-> in.hours_per_week,
      plan |-> GenerateWeeks(in, nTasks, appWeekCount, 0, phaseIdx, <<>>)]

generatePlan(in) ==
  LET nTasks == tasksPerWeek(in.hours_per_week)
      appWeekCount ==
        Cardinality({w \in 1..in.weeks : phaseOf(w, in.weeks) = "application"})
      phaseIdx == [foundation |-> 0, development |-> 0, application |-> 0]
  IN [weeks |-> in.weeks, hours_per_week |-> in.hours_per_week,
      plan |-> GenerateWeeks(in, nTasks, appWeekCount, 1, phaseIdx, <<>>)]

\* ------------------------------------------------------------ serialization
\* JSON.stringify(result, null, 2) as the text's tree: an object prints its
\* properties as key and value in declaration order, an array its elements.
JSONstringify(p) ==
  LET task(t) == <<"title", t.title, "effort_hours", t.effort_hours>>
      week(w) == <<"week", w.week, "focus", w.focus, "hours", w.hours,
                   "tasks", [i \in 1..Len(w.tasks) |-> task(w.tasks[i])]>>
  IN <<"weeks", p.weeks, "hours_per_week", p.hours_per_week,
       "plan", [i \in 1..Len(p.plan) |-> week(p.plan[i])]>>

\* a fixPlan that lowers the budget when it is given errors
fixPlanLowerBudget(in, _errors) ==
  IF _errors = <<>> THEN generatePlan(in)
  ELSE generatePlan([in EXCEPT !.hours_per_week = @ - 2])

\* fixPlan re-generates: the error messages do not reach the generator.
fixPlan(in, _errors) == generatePlan(in)

\* ------------------------------------------------------ structural schema
TaskSchema(t) == t.effort_hours > 0

WeekSchema(week) ==
  /\ week.week > 0
  /\ week.hours > 0
  /\ Len(week.tasks) >= 1
  /\ \A i \in 1..Len(week.tasks) : TaskSchema(week.tasks[i])

LearningPlanSchema(p) ==
  /\ p.weeks > 0
  /\ p.hours_per_week > 0
  /\ Len(p.plan) >= 1
  /\ \A i \in 1..Len(p.plan) : WeekSchema(p.plan[i])

\* ------------------------------------------- binary64 at a 0.01 difference
RECURSIVE Pow2(_)
Pow2(n) == IF n = 0 THEN 1 ELSE 2 * Pow2(n - 1)

RECURSIVE Pow2Mod100(_)
Pow2Mod100(n) == IF n = 0 THEN 1 ELSE (2 * Pow2Mod100(n - 1)) % 100

\* k / 100 lies in [2^(e - 7), 2^(e - 6)) for e = FpBinade(k), k >= 1.
FpBinade(k) ==
  CHOOSE e \in 0..24 : Pow2(e) * 100 <= 128 * k /\ 128 * k < Pow2(e + 1) * 100

\* The representation error of the binary64 nearest to k / 100, counted in
\* units of 2^-59 / 100: the significand has 53 bits, so the value is
\* rounded to a multiple of 2^-s with s = 59 - FpBinade(k).
FpError(k) ==
  LET e == FpBinade(k)
      r == (k * Pow2Mod100(59 - e)) % 100
      d == IF r < 50 THEN 0 - r ELSE 100 - r
  IN d * Pow2(e)

\* Math.abs(a - b) > 0.01 for binary64 a, b nearest to lo / 100 and
\* (lo + 1) / 100: the subtraction is exact, and the literal 0.01 carries
\* the error FpError(1) (1.01 - 1 > 0.01 is true, 10.01 - 10 > 0.01 false).
FpHundredthApart(lo) ==
  /\ lo > 0
  /\ FpError(lo + 1) - FpError(lo) > FpError(1)

\* the comparison with a tolerance of 0.1
ExceedsToleranceTenth(roundedSum, roundedHours) ==
  LET a == roundedSum \div 10
      b == roundedHours \div 10
      lo == IF a < b THEN a ELSE b
      hi == IF a < b THEN b ELSE a
  IN hi - lo > 10

\* Math.abs(roundedSum - roundedHours) > 0.01
ExceedsTolerance(roundedSum, roundedHours) ==
  LET a == roundedSum \div 10
      b == roundedHours \div 10
      lo == IF a < b THEN a ELSE b
      hi == IF a < b THEN b ELSE a
  IN \/ hi - lo > 1
     \/ hi - lo = 1 /\ FpHundredthApart(lo)

\* --------------------------------------------------------------- validator
\* the budget check with >= in place of >
ValidateWeekAtBudget(week, hours_per_week) ==
  LET taskSum == SumEffort(week.tasks)
      roundedSum == Round2(taskSum)
      roundedHours == Round2(week.hours)
      mismatch == IF ExceedsTolerance(roundedSum, roundedHours)
                  THEN <<[type |-> "hours_mismatch",
                          message |-> <<week.week, roundedHours, roundedSum>>]>>
                  ELSE <<>>
      exceeded == IF roundedHours >= hours_per_week
                  THEN <<[type |-> "hours_exceeded",
                          message |-> <<week.week, roundedHours,
                                        hours_per_week>>]>>
                  ELSE <<>>
  IN mismatch \o exceeded

\* the budget check pushed before the sum check
ValidateWeekBudgetFirst(week, hours_per_week) ==
  LET roundedSum == Round2(SumEffort(week.tasks))
      roundedHours == Round2(week.hours)
      mismatch == IF ExceedsTolerance(roundedSum, roundedHours)
                  THEN <<[type |-> "hours_mismatch",
                          message |-> <<week.week, roundedHours, roundedSum>>]>>
                  ELSE <<>>
      exceeded == IF roundedHours > hours_per_week
                  THEN <<[type |-> "hours_exceeded",
                          message |-> <<week.week, roundedHours,
                                        hours_per_week>>]>>
                  ELSE <<>>
  IN exceeded \o mismatch

\* The body of  for (const week of plan.plan)  for one week.
ValidateWeek(week, hours_per_week) ==
  LET taskSum == SumEffort(week.tasks)
      roundedSum == Round2(taskSum)
      roundedHours == Round2(week.hours)
      mismatch == IF ExceedsTolerance(roundedSum, roundedHours)
                  THEN <<[type |-> "hours_mismatch",
                          message |-> <<week.week, roundedHours, roundedSum>>]>>
                  ELSE <<>>
      exceeded == IF roundedHours > hours_per_week
                  THEN <<[type |-> "hours_exceeded",
                          message |-> <<week.week, roundedHours,
                                        hours_per_week>>]>>
                  ELSE <<>>
  IN mismatch \o exceeded

RECURSIVE ValidateWeeks(_, _)
ValidateWeeks(weeks, hours_per_week) ==
  IF weeks = <<>> THEN <<>>
  ELSE ValidateWeek(Head(weeks), hours_per_week)
         \o ValidateWeeks(Tail(weeks), hours_per_week)

\* validatePlan returning at the first failed check
validatePlanShortCircuit(p) ==
  IF Len(p.plan) # p.weeks
  THEN <<[type |-> "weeks_mismatch", message |-> <<Len(p.plan), p.weeks>>]>>
  ELSE ValidateWeeks(p.plan, p.hours_per_week)

validatePlan(p) ==
  LET count == IF Len(p.plan) # p.weeks
               THEN <<[type |-> "weeks_mismatch",
                       message |-> <<Len(p.plan), p.weeks>>]>>
               ELSE <<>>
  IN count \o ValidateWeeks(p.plan, p.hours_per_week)

\* ------------------------------------------------------------------ inputs
HoursGrid == {2 * k : k \in 1..MaxGrid}

PlanInputs == [weeks : 1..MaxWeeks, hours_per_week : HoursGrid]

NoInputs == [weeks |-> 0, hours_per_week |-> 0]

NoPlan == [weeks |-> 0, hours_per_week |-> 0, plan |-> <<>>]

\* ----------------------------------------------------------------- actions
Generate ==
  /\ pc = "start"
  /\ plan' = generatePlan(inputs)
  /\ raw' = JSONstringify(plan')
  /\ calls' = Append(calls, "generatePlan")
  /\ pc' = "generated"
  /\ UNCHANGED <<inputs, errors, file>>

Validate ==
  /\ pc \in {"generated", "parsed"}
  /\ errors' = validatePlan(plan)
  /\ calls' = Append(calls, "validatePlan")
  /\ pc' = "validated"
  /\ UNCHANGED <<inputs, plan, raw, file>>

\* LearningPlanSchema.parse(candidate): the value passes unchanged or the
\* parse throws.
Parse ==
  /\ pc = "candidate"
  /\ pc' = IF LearningPlanSchema(plan) THEN "parsed" ELSE "rejected"
  /\ UNCHANGED <<inputs, plan, errors, raw, file, calls>>

Init ==
  /\ inputs \in PlanInputs
  /\ plan = NoPlan
  /\ errors = <<>>
  /\ pc = "start"
  /\ raw = <<>>
  /\ file = <<>>
  /\ calls = <<>>

Next == Generate \/ Validate

Spec == Init /\ [][Next]_vars


\* ------------------------------------------- externally supplied candidates
\* week.hours 4 and 4.026 (4.03 at two decimals); task efforts 2 and 2.01;
\* budgets 4 and 4.028.  The schema rejects an empty task list, an empty
\* plan and weeks = 0.
CandHours == {4000, 4026}

CandEfforts == {2000, 2010}

CandBudgets == {4000, 4028}

CandTasks ==
  UNION {{[i \in 1..n |-> [title |-> <<"candidate", i>>, effort_hours |-> f[i]]] :
            f \in [1..n -> CandEfforts]} : n \in 0..MaxCandTasks}

\* The candidate with the week entries f (hours and tasks of each week,
\* numbered in order), the budget b and a weeks field d off the number of
\* entries.
CandidatePlan(f, b, d) ==
  [weeks |-> Len(f) + d,
   hours_per_week |-> b,
   plan |-> [i \in 1..Len(f) |->
               [week |-> i, focus |-> <<"candidate">>,
                hours |-> f[i][1], tasks |-> f[i][2]]]]

InitV ==
  /\ inputs = NoInputs
  /\ \E n \in 0..MaxCandWeeks, b \in CandBudgets, d \in {-1, 0, 1} :
       \E f \in [1..n -> CandHours \X CandTasks] :
         plan = CandidatePlan(f, b, d)
  /\ errors = <<>>
  /\ pc = "candidate"
  /\ raw = <<>>
  /\ file = <<>>
  /\ calls = <<>>

NextV == Parse \/ Validate

SpecV == InitV /\ [][NextV]_vars

\* ------------------------------------------------- repeated planner calls
MaxCalls == 4

FixHours == {3000, 4000, 7556, 10000, 14200}

\* The error messages a caller may hand to fixPlan.
ErrorLists ==
  {<<>>, <<"some error">>, <<"weeks_mismatch", "hours_exceeded">>}

\* fixPlan(inputs, e) called on the inputs of an earlier call.
CallFixPlan ==
  /\ pc \in {"generated", "fixed"}
  /\ Len(calls) < MaxCalls
  /\ \E e \in ErrorLists :
       /\ plan' = fixPlan(inputs, e)
       /\ errors' = e
  /\ raw' = JSONstringify(plan')
  /\ calls' = Append(calls, "fixPlan")
  /\ pc' = "fixed"
  /\ UNCHANGED <<inputs, file>>

\* generatePlan(inputs) called again after a fixPlan.
CallGeneratePlan ==
  /\ pc = "fixed"
  /\ Len(calls) < MaxCalls
  /\ plan' = generatePlan(inputs)
  /\ raw' = JSONstringify(plan')
  /\ calls' = Append(calls, "generatePlan")
  /\ pc' = "generated"
  /\ UNCHANGED <<inputs, errors, file>>

InitF ==
  /\ inputs \in [weeks : 1..MaxWeeks, hours_per_week : FixHours]
  /\ plan = NoPlan
  /\ errors = <<>>
  /\ pc = "start"
  /\ raw = <<>>
  /\ file = <<>>
  /\ calls = <<>>

NextF == Generate \/ CallFixPlan \/ CallGeneratePlan

SpecF == InitF /\ [][NextF]_vars

\* The generator and the validator on the same few budgets (two, three and
\* four tasks a week) and every plan length.
SpecP == InitF /\ [][Next]_vars

\* ------------------------------------------------------- the CLI's main flow
\* generatePlan and fixPlan are called inside try blocks. Which of the two
\* calls throws is left open: the catch blocks of main handle a throw of
\* either (Array.from throws a RangeError on a weeks value that is no valid
\* array length).
FirstMessages == [j \in 1..Len(errors) |-> errors[j].message]

\* if (firstErrors.length > 0), reached after the first attempt
NeedsRetry ==
  \/ pc = "validated" /\ errors # <<>>
  \/ pc = "threw"

\* The save is reached past the retry, or past a first attempt without errors.
ReadyToSave ==
  \/ pc = "validated" /\ errors = <<>>
  \/ pc \in {"retried", "retry failed"}

\* catch (err) of the first attempt: firstErrors = [err.message]
GenerateThrows ==
  /\ pc = "start"
  /\ errors' = <<[type |-> "exception", message |-> <<"err.message">>]>>
  /\ calls' = Append(calls, "generatePlan throws")
  /\ pc' = "threw"
  /\ UNCHANGED <<inputs, plan, raw, file>>

\* a retry whatever the first attempt gave
RetryUnconditional ==
  /\ pc \in {"validated", "threw"}
  /\ plan' = fixPlan(inputs, FirstMessages)
  /\ raw' = JSONstringify(plan')
  /\ calls' = calls \o <<"fixPlan", "validatePlan">>
  /\ pc' = "retried"
  /\ UNCHANGED <<inputs, errors, file>>

\* if (firstErrors.length > 0): fixPlan returns and its plan is validated;
\* the remaining errors are only printed.
Retry ==
  /\ NeedsRetry
  /\ plan' = fixPlan(inputs, FirstMessages)
  /\ raw' = JSONstringify(plan')
  /\ calls' = calls \o <<"fixPlan", "validatePlan">>
  /\ pc' = "retried"
  /\ UNCHANGED <<inputs, errors, file>>

\* catch (retryErr): process.exit(1) when there is no result, else go on with
\* the result of the first attempt.
RetryThrows ==
  /\ NeedsRetry
  /\ calls' = Append(calls, "fixPlan throws")
  /\ pc' = IF plan = NoPlan THEN "exit 1" ELSE "retry failed"
  /\ UNCHANGED <<inputs, plan, errors, raw, file>>

\* writeFileSync("plan.json", JSON.stringify(finalPlan, null, 2))
Save ==
  /\ ReadyToSave
  /\ file' = JSONstringify(plan)
  /\ calls' = Append(calls, "writeFileSync")
  /\ pc' = "saved"
  /\ UNCHANGED <<inputs, plan, errors, raw>>

NextMain ==
  \/ Generate
  \/ GenerateThrows
  \/ Validate
  \/ Retry
  \/ RetryThrows
  \/ Save

SpecMain == InitF /\ [][NextMain]_vars

\* ------------------------------------------- candidates with any week numbers
\* The schema asks of a week number only that it is a positive integer, so a
\* candidate may number its entries in any way.
Renumber(p, num) ==
  [p EXCEPT !.plan = [i \in 1..Len(p.plan) |->
                        [p.plan[i] EXCEPT !.week = num[i]]]]

InitW ==
  /\ inputs = NoInputs
  /\ \E n \in 0..MaxCandWeeks, b \in CandBudgets, d \in {-1, 0, 1} :
       \E f \in [1..n -> CandHours \X CandTasks] :
         \E num \in [1..n -> 1..MaxCandWeeks] :
           plan = Renumber(CandidatePlan(f, b, d), num)
  /\ errors = <<>>
  /\ pc = "candidate"
  /\ raw = <<>>
  /\ file = <<>>
  /\ calls = <<>>

SpecW == InitW /\ [][NextV]_vars


\* =================================================================== claims
Generated == pc \in {"generated", "validated"}

Validated == pc = "validated"

Weeks == 1..Len(plan.plan)

RoundedSum(i) == Round2(SumEffort(plan.plan[i].tasks))

RoundedHours(i) == Round2(plan.plan[i].hours)

Distance(i) ==
  IF RoundedSum(i) < RoundedHours(i) THEN RoundedHours(i) - RoundedSum(i)
  ELSE RoundedSum(i) - RoundedHours(i)

Entries(type) == {j \in 1..Len(errors) : errors[j].type = type}

Reported(type, i) ==
  \E j \in Entries(type) : errors[j].message[1] = plan.plan[i].week

\* C1 (Spec): validatePlan returns the empty list for every generated plan,
\* whatever positive weeks and hours_per_week the inputs carry.
C1_GeneratedPlanValidates == Validated => errors = <<>>

\* C2 (Spec): the generated plan echoes weeks = W and has exactly W entries,
\* the i-th one carrying week number i.
C2_WeeksSequential ==
  Generated =>
    /\ plan.weeks = inputs.weeks
    /\ Len(plan.plan) = inputs.weeks
    /\ \A i \in Weeks : plan.plan[i].week = i

C2_Witness ==
  /\ Generated
  /\ inputs.weeks = 4
  /\ Len(plan.plan) = 4
  /\ plan.plan[4].week = 4

\* C3 (Spec): no week of a generated plan has hours greater than the plan's
\* hours_per_week, also when hours_per_week has more than two decimals.
C3_HoursWithinBudget ==
  Generated => \A i \in Weeks : plan.plan[i].hours <= plan.hours_per_week

\* C4 (Spec): in a generated plan every task has effort_hours > 0 and every
\* week has hours > 0 and at least one task, also for very small
\* hours_per_week, so the structural schema accepts the plan.
C4_StructurallyValid ==
  Generated =>
    /\ Len(plan.plan) >= 1
    /\ \A i \in Weeks :
         /\ plan.plan[i].hours > 0
         /\ Len(plan.plan[i].tasks) >= 1
         /\ \A t \in 1..Len(plan.plan[i].tasks) :
              plan.plan[i].tasks[t].effort_hours > 0

\* C5 (Spec): in every generated week the task efforts sum, at two
\* decimals, to exactly hours_per_week, and the week's hours field equals
\* hours_per_week, for every positive hours_per_week.
C5_HoursEqualBudget ==
  Generated =>
    \A i \in Weeks :
      /\ RoundedSum(i) = plan.hours_per_week
      /\ plan.plan[i].hours = plan.hours_per_week

\* C6 (Spec): every week of a generated plan has 2 tasks when
\* hours_per_week <= 4, 3 tasks when 4 < hours_per_week <= 14 and 4 tasks
\* when hours_per_week > 14, in every phase and for every bank.
C6_TaskCount ==
  Generated =>
    \A i \in Weeks :
      Len(plan.plan[i].tasks) =
        IF inputs.hours_per_week <= 4000 THEN 2
        ELSE IF inputs.hours_per_week <= 14000 THEN 3
        ELSE 4

C6_Witness ==
  /\ Generated
  /\ inputs.weeks = 9
  /\ inputs.hours_per_week = 14000
  /\ \A i \in Weeks : Len(plan.plan[i].tasks) = 3

\* C7 (SpecV): validatePlan emits one weeks_mismatch entry when the number
\* of week entries differs from weeks and none otherwise, and it still runs
\* both per-week checks on every week entry: a week over the tolerance or
\* over the budget is reported whether or not weeks_mismatch was emitted.
C7_NoShortCircuit ==
  Validated =>
    /\ Cardinality(Entries("weeks_mismatch")) =
         IF Len(plan.plan) # plan.weeks THEN 1 ELSE 0
    /\ \A i \in Weeks :
         /\ Distance(i) > 10 => Reported("hours_mismatch", i)
         /\ RoundedHours(i) > plan.hours_per_week
              => Reported("hours_exceeded", i)

\* a plan with a weeks_mismatch whose second week yields both entries
C7_Witness ==
  /\ Validated
  /\ Entries("weeks_mismatch") # {}
  /\ Len(plan.plan) = 2
  /\ Reported("hours_mismatch", 2)
  /\ Reported("hours_exceeded", 2)

\* C8 (SpecV): every week whose hours differs from the sum of its task
\* efforts, both at two decimals, gets a hours_mismatch entry, the smallest
\* difference of 0.01 included.
C8_EveryMismatchCaught ==
  Validated =>
    \A i \in Weeks :
      RoundedSum(i) # RoundedHours(i) => Reported("hours_mismatch", i)

C10_ExceededIffOverBudget ==
  Validated =>
    /\ \A i \in Weeks :
         Reported("hours_exceeded", i)
           <=> RoundedHours(i) > plan.hours_per_week
    /\ Cardinality(Entries("hours_exceeded")) =
         Cardinality({i \in Weeks : RoundedHours(i) > plan.hours_per_week})

\* week 1 is at the budget and is not reported, week 2 exceeds and is
C10_Witness ==
  /\ Validated
  /\ Len(plan.plan) = 2
  /\ RoundedHours(1) = plan.hours_per_week
  /\ ~Reported("hours_exceeded", 1)
  /\ RoundedHours(2) > plan.hours_per_week
  /\ Cardinality(Entries("hours_exceeded")) = 1

\* C11 (SpecW): when validatePlan returns the empty list for a plan the
\* schema accepts, the plan has as many entries as its weeks field says, its
\* entries are numbered 1, 2, ... in order, every week's hours is within 0.01
\* of the sum of its efforts and no week's hours exceeds hours_per_week.
C11_EmptyMeansValid ==
  (Validated /\ errors = <<>>) =>
    /\ Len(plan.plan) = plan.weeks
    /\ \A i \in Weeks :
         /\ plan.plan[i].week = i
         /\ Distance(i) <= 10
         /\ plan.plan[i].hours <= plan.hours_per_week

\* C12 (SpecV): the returned list is ordered. A weeks_mismatch entry can only
\* be the first entry; the per-week entries come in the order of the weeks;
\* when a week has both entries its hours_mismatch entry is immediately
\* followed by its hours_exceeded entry; and the list has at most
\* 1 + 2 * Len(plan.plan) entries.
C12_ErrorsOrdered ==
  Validated =>
    /\ Entries("weeks_mismatch") \subseteq {1}
    /\ \A j, k \in Entries("hours_mismatch") \cup Entries("hours_exceeded") :
         j < k => errors[j].message[1] <= errors[k].message[1]
    /\ \A i \in Weeks :
         (Reported("hours_mismatch", i) /\ Reported("hours_exceeded", i)) =>
           \E j \in Entries("hours_mismatch") :
             /\ errors[j].message[1] = plan.plan[i].week
             /\ j + 1 \in Entries("hours_exceeded")
             /\ errors[j + 1].message[1] = plan.plan[i].week
    /\ Len(errors) <= 1 + 2 * Len(plan.plan)

C12_Witness ==
  /\ Validated
  /\ Len(plan.plan) = 2
  /\ Len(errors) = 5
  /\ errors[1].type = "weeks_mismatch"
  /\ errors[2].type = "hours_mismatch"
  /\ errors[3].type = "hours_exceeded"

\* The phase of the i-th generated week, read off the bank its tasks come from.
BankOf(i) == plan.plan[i].tasks[1].title[1]

PhaseOfWeek(i) ==
  IF BankOf(i) \in {"foundation-0", "foundation-1"} THEN "foundation"
  ELSE IF BankOf(i) \in {"development-0", "development-1", "development-2"}
  THEN "development"
  ELSE "application"

\* C13 (SpecP): week w of a plan of W weeks is in the phase its position
\* gives: W = 1 is application; W = 2 is foundation then application;
\* W >= 3 is foundation when 3w <= W, development when W < 3w <= 2W and
\* application otherwise, the boundary weeks going to the earlier phase.
C13_PhaseByPosition ==
  Generated =>
    \A w \in Weeks :
      LET W == inputs.weeks
      IN PhaseOfWeek(w) =
           (IF W = 1 THEN "application"
            ELSE IF W = 2 THEN (IF w = 1 THEN "foundation" ELSE "application")
            ELSE IF 3 * w <= W THEN "foundation"
            ELSE IF W < 3 * w /\ 3 * w <= 2 * W THEN "development"
            ELSE "application")

C13_Witness ==
  /\ Generated
  /\ inputs.weeks = 6
  /\ PhaseOfWeek(2) = "foundation"
  /\ PhaseOfWeek(3) = "development"
  /\ PhaseOfWeek(4) = "development"
  /\ PhaseOfWeek(5) = "application"

Titles(i) ==
  [t \in 1..Len(plan.plan[i].tasks) |-> plan.plan[i].tasks[t].title]

AppWeeks == {i \in Weeks : PhaseOfWeek(i) = "application"}

\* An application week that is neither the first nor the last of its phase.
MiddleAppWeek(i) == {i - 1, i, i + 1} \subseteq AppWeeks

\* C15 (SpecP), as stated: two consecutive weeks of the same phase never carry
\* the same list of task titles.
C15_AdjacentWeeksDiffer ==
  Generated =>
    \A i \in Weeks :
      (i + 1 \in Weeks /\ PhaseOfWeek(i) = PhaseOfWeek(i + 1))
        => Titles(i) # Titles(i + 1)

\* C15 (SpecP), amended: two consecutive weeks of the same phase carry the
\* same list of task titles exactly when both are middle application weeks.
C15_AdjacentDifferUnlessMiddle ==
  Generated =>
    \A i \in Weeks :
      (i + 1 \in Weeks /\ PhaseOfWeek(i) = PhaseOfWeek(i + 1))
        => (Titles(i) = Titles(i + 1)
              <=> (MiddleAppWeek(i) /\ MiddleAppWeek(i + 1)))

C15_Witness ==
  /\ Generated
  /\ inputs.weeks = 12
  /\ PhaseOfWeek(1) = PhaseOfWeek(2)
  /\ Titles(1) # Titles(2)
  /\ MiddleAppWeek(10) /\ MiddleAppWeek(11)
  /\ Titles(10) = Titles(11)

FirstAppWeek == CHOOSE i \in AppWeeks : \A k \in AppWeeks : i <= k

LastAppWeek == CHOOSE i \in AppWeeks : \A k \in AppWeeks : k <= i

\* C16 (SpecP), as stated: for every weeks >= 1 the first application week
\* has the kickoff bank, the last application week is the final week of the
\* plan and has the wrap-up bank, and every other application week has the
\* build-out bank.
C16_KickoffAndWrapUp ==
  Generated =>
    /\ AppWeeks # {}
    /\ LastAppWeek = Len(plan.plan)
    /\ BankOf(FirstAppWeek) = "application-kickoff"
    /\ BankOf(LastAppWeek) = "application-wrapup"
    /\ \A i \in AppWeeks \ {FirstAppWeek, LastAppWeek} :
         BankOf(i) = "application-middle"

\* C16 (SpecP), amended: as above when the plan has two or more application
\* weeks; a plan with a single application week gives it the kickoff bank
\* and has no wrap-up week.
C16_KickoffFirst ==
  Generated =>
    /\ AppWeeks # {}
    /\ LastAppWeek = Len(plan.plan)
    /\ BankOf(FirstAppWeek) = "application-kickoff"
    /\ FirstAppWeek # LastAppWeek => BankOf(LastAppWeek) = "application-wrapup"
    /\ \A i \in AppWeeks \ {FirstAppWeek, LastAppWeek} :
         BankOf(i) = "application-middle"

C16_Witness ==
  /\ Generated
  /\ inputs.weeks = 11
  /\ AppWeeks = 8..11
  /\ BankOf(8) = "application-kickoff"
  /\ BankOf(9) = "application-middle"
  /\ BankOf(11) = "application-wrapup"

\* C17 (SpecP): the focus label of an application week names the position its
\* task bank is written for: kickoff bank with "Project Design & Kickoff",
\* wrap-up bank with "Final Polish & Portfolio", build-out bank with one of
\* the two middle themes.
C17_LabelMatchesBank ==
  Generated =>
    \A i \in AppWeeks :
      /\ BankOf(i) = "application-kickoff"
           => plan.plan[i].focus = <<"Project Design & Kickoff">>
      /\ BankOf(i) = "application-wrapup"
           => plan.plan[i].focus = <<"Final Polish & Portfolio">>
      /\ BankOf(i) = "application-middle"
           => plan.plan[i].focus \in {<<"Core Feature Implementation">>,
                                      <<"Integration & Quality">>}

PhaseWeeks(phase) == {i \in Weeks : PhaseOfWeek(i) = phase}

PhaseRank(phase) ==
  IF phase = "foundation" THEN 1 ELSE IF phase = "development" THEN 2 ELSE 3

\* C18 (SpecP): in a plan of three or more weeks the phases never go back to
\* an earlier stage, each of the three phases has at least one week, the
\* final week is an application week, the numbers of weeks of any two phases
\* differ by at most one, and no phase has more weeks than application.
C18_ThreeBalancedBlocks ==
  (Generated /\ inputs.weeks >= 3) =>
    LET nF == Cardinality(PhaseWeeks("foundation"))
        nD == Cardinality(PhaseWeeks("development"))
        nA == Cardinality(PhaseWeeks("application"))
    IN /\ \A i, k \in Weeks :
            i < k => PhaseRank(PhaseOfWeek(i)) <= PhaseRank(PhaseOfWeek(k))
       /\ nF >= 1 /\ nD >= 1 /\ nA >= 1
       /\ PhaseOfWeek(Len(plan.plan)) = "application"
       /\ nD - nF \in {-1, 0, 1}
       /\ nA - nF \in {-1, 0, 1}
       /\ nA - nD \in {-1, 0, 1}
       /\ nA >= nF /\ nA >= nD

C18_Witness ==
  /\ Generated
  /\ inputs.weeks = 8
  /\ PhaseWeeks("foundation") = 1..2
  /\ PhaseWeeks("development") = 3..5
  /\ PhaseWeeks("application") = 6..8

FixCalls == {j \in 1..Len(calls) : calls[j] \in {"fixPlan", "fixPlan throws"}}

\* The calls that returned a plan.
Produced == {j \in 1..Len(calls) : calls[j] \in {"generatePlan", "fixPlan"}}

Ended == pc \in {"saved", "exit 1"}

FirstAttemptFailed ==
  \/ calls[1] = "generatePlan throws"
  \/ validatePlan(generatePlan(inputs)) # <<>>

LatestProduced ==
  IF \E j \in Produced : calls[j] = "fixPlan"
  THEN fixPlan(inputs, FirstMessages)
  ELSE generatePlan(inputs)

====
